---- MODULE Spec2Model ----
(***************************************************************************)
(* Mail360 Manager: OAuth token cache, send executor, the server bulk      *)
(* route and the client-driven bulk sequencer with its Pause / End Job     *)
(* buttons.  Server code runs on one event loop: a handler keeps the       *)
(* thread (running) from one network await to the next.                    *)
(***************************************************************************)
EXTENDS Integers, Sequences, FiniteSets, TLC

\* ------------------------------------------------------------------ bounds
MaxBlobLen == 3      \* characters in a recipients blob
MaxTicks == 1        \* clock ticks in a behaviour
MaxTokens == 2       \* tokens the OAuth endpoint issues in a behaviour
MaxBatchLen == 2     \* results in a batch posted to the store route
MaxStores == 2       \* store calls in a behaviour of the result store
MaxRequests == 2     \* single-send requests in a behaviour of direct requests

\* ------------------------------------------------------- program constants
MsPerSecond == 1000
SafetyMarginMs == 60000
TickMs == SafetyMarginMs   \* the clock advances in steps of the margin
FallbackCode == 500
OkCode == 200

\* --------------------------------------------------------------- JS values
\* A JS number that may be NaN (expires_in missing from the body).
Num(n) == [nan |-> FALSE, v |-> n]
NaN == [nan |-> TRUE, v |-> 0]
\* a >= b on JS numbers: every comparison with NaN is false.
JsGe(a, b) == ~a.nan /\ ~b.nan /\ a.v >= b.v
JsAdd(a, b) == IF a.nan \/ b.nan THEN NaN ELSE Num(a.v + b.v)
JsMul(a, b) == IF a.nan \/ b.nan THEN NaN ELSE Num(a.v * b.v)
JsSub(a, b) == IF a.nan \/ b.nan THEN NaN ELSE Num(a.v - b.v)

\* access_token: 0 is undefined, n > 0 the n-th token the provider issued.
Undefined == 0

\* A payload travelling in result.data / result.error / fullResponse:
\* nothing (null), a local error message, or an upstream response body.
\* status 0 is an absent status; messageId "" is an absent id.
NullP == [kind |-> "null", status |-> 0, hasData |-> FALSE, messageId |-> "", msg |-> ""]
MsgP(m) == [kind |-> "msg", status |-> 0, hasData |-> FALSE, messageId |-> "", msg |-> m]
BodyP(st, hd, mid) == [kind |-> "body", status |-> st, hasData |-> hd, messageId |-> mid, msg |-> ""]

\* --------------------------------------------------------------- accounts
\* accounts.json as getEmailAccounts returns it.  Nothing makes names unique:
\* the third account was added under the name of the first.  cred stands for
\* the account's client_id, client_secret and refresh_token.
Accounts ==
  << [name |-> "A", account_key |-> "k1", cred |-> "credA"],
     [name |-> "B", account_key |-> "k2", cred |-> "credB"],
     [name |-> "A", account_key |-> "k3", cred |-> "credC"] >>
Names == {Accounts[i].name : i \in DOMAIN Accounts}
\* Keys a bulk run is requested with: two configured accounts and a key no
\* account has.
RequestKeys == {"k1", "k2", "kx"}
\* Keys of the direct single sends: every configured account as well.
DirectKeys == RequestKeys \cup {Accounts[i].account_key : i \in DOMAIN Accounts}

\* accounts.find(acc => acc.account_key === key): index of the first match, 0 if none.
FindAccount(key) ==
  IF \E i \in DOMAIN Accounts : Accounts[i].account_key = key
  THEN CHOOSE i \in DOMAIN Accounts :
         /\ Accounts[i].account_key = key
         /\ \A j \in DOMAIN Accounts : Accounts[j].account_key = key => i <= j
  ELSE 0

\* ------------------------------------------------------- recipients parsing
NL == "\n"
SP == " "
Chars == {NL, SP, "a", "b"}
\* "a" and "b" stand for two well-formed addresses; any other non-blank line
\* ("ab", "a b") is a malformed address.
WellFormed == {<<"a">>, <<"b">>}

RECURSIVE SeqsUpTo(_)
SeqsUpTo(n) ==
  IF n = 0 THEN {<<>>}
  ELSE LET shorter == SeqsUpTo(n - 1)
       IN shorter \cup {Append(s, c) : s \in {t \in shorter : Len(t) = n - 1}, c \in Chars}
Blobs == SeqsUpTo(MaxBlobLen)

\* String.prototype.split('\n')
RECURSIVE SplitLines(_, _, _)
SplitLines(s, i, cur) ==
  IF i > Len(s) THEN <<cur>>
  ELSE IF s[i] = NL THEN <<cur>> \o SplitLines(s, i + 1, <<>>)
  ELSE SplitLines(s, i + 1, Append(cur, s[i]))
Split(s) == SplitLines(s, 1, <<>>)

\* String.prototype.trim()
RECURSIVE TrimLeft(_)
TrimLeft(s) == IF s # <<>> /\ Head(s) = SP THEN TrimLeft(Tail(s)) ELSE s
RECURSIVE TrimRight(_)
TrimRight(s) ==
  IF s # <<>> /\ s[Len(s)] = SP THEN TrimRight(SubSeq(s, 1, Len(s) - 1)) ELSE s
Trim(s) == TrimRight(TrimLeft(s))

\* Array.from(new Set(list)): the first occurrence of every element.
RECURSIVE Unique(_)
Unique(list) ==
  IF list = <<>> THEN <<>>
  ELSE LET init == SubSeq(list, 1, Len(list) - 1)
           last == list[Len(list)]
       IN IF \E k \in 1..Len(init) : init[k] = last
          THEN Unique(init) ELSE Append(Unique(init), last)

ParseRecipientsUnique(blob) ==
  LET lines == Split(blob)
      trimmed == [k \in DOMAIN lines |-> Trim(lines[k])]
  IN Unique(SelectSeq(trimmed, LAMBDA e : e # <<>>))

\* recipients.split('\n').map(email => email.trim()).filter(email => email)
ParseRecipients(blob) ==
  LET lines == Split(blob)
      trimmed == [k \in DOMAIN lines |-> Trim(lines[k])]
  IN SelectSeq(trimmed, LAMBDA e : e # <<>>)


\* --------------------------------------------------------- address shapes
GoodFrom == <<"a", "@", "x", ".", "c">>
BadFrom == <<"n", "o">>
FromAddresses == {GoodFrom, BadFrom}
IsPlain(c) == c # SP /\ c # NL /\ c # "@"
EmailShapeAnyText(s) == Len(s) > 0

\* /^[^\s@]+@[^\s@]+\.[^\s@]+$/.test(s)
EmailShape(s) ==
  \E i \in 1..Len(s) : \E j \in 1..Len(s) :
    /\ s[i] = "@" /\ s[j] = "."
    /\ 1 < i /\ i + 1 < j /\ j < Len(s)
    /\ \A k \in 1..Len(s) : k # i => IsPlain(s[k])
\* z.string().email() on a recipient line
ZodEmail(line) == line \in WellFormed

\* ---------------------------------------------------------------- messages
AuthMsg == "Failed to authenticate with Zoho."
InvalidPrimaryMsg == "Invalid primary account selected."
FromNotFoundMsg == "From address not found in Zoho sub-accounts."
FromFormatMsg == "Invalid fromAddress format."
InvalidAccountMsg == "Invalid account selected."
TypeErrorMsg == "TypeError"
NetworkMsg == "Network Error"
ZodMsg == "ZodError"

\* ------------------------------------------------------------------- state
VARIABLES
  now,           \* Date.now(), in ms
  tokenCache,    \* routes.ts tokenCache: account name -> entry
  issued,        \* tokens the OAuth endpoint has issued
  emailResults,  \* MemStorage.emailResults, its entries in insertion order
  running,       \* the handler holding the server's event loop, 0 when free
  srv,           \* the server's request handlers
  requests,      \* requests submitted so far: a behaviour follows one bulk run
  cl             \* the bulk-send page (React state and the running sequencer)

vars == <<now, tokenCache, issued, emailResults, running, srv, requests, cl>>

H == {1}

\* An entry of tokenCache.  cred is not part of the entry: it records the
\* credentials the exchange that produced the token was made with.
NoEntry == [present |-> FALSE, access_token |-> Undefined, expires_at |-> NaN, cred |-> ""]
Entry(tok, exp, cred) ==
  [present |-> TRUE, access_token |-> tok, expires_at |-> exp, cred |-> cred]

NoResult == [success |-> FALSE, data |-> NullP, error |-> NullP]
NoResp == [code |-> 0, success |-> FALSE, messageId |-> "", responseCode |-> 0,
           fullResponse |-> NullP, error |-> NullP, message |-> ""]

IdleHandler ==
  [route |-> "none", pc |-> "idle", origin |-> "none",
   key |-> "", from |-> <<>>, to |-> <<>>, recipients |-> <<>>,
   acct |-> 0,            \* selectedAccount / selectedPrimaryAccount
   ret |-> "none",        \* the caller getZohoAccessToken returns to
   currentTime |-> 0,     \* getZohoAccessToken's currentTime
   cachedToken |-> NoEntry, \* getZohoAccessToken's cachedToken
   xchg |-> 0,            \* OAuth POSTs issued by the current getZohoAccessToken call
   got |-> Undefined,     \* access_token of the exchange the current call made
   expires_in |-> NaN,    \* expires_in of that exchange
   accessToken |-> Undefined, \* bearer token of the provider call last issued
   bearerCred |-> "",     \* the credentials that token was obtained with
   subKey |-> FALSE,      \* subAccount found
   posts |-> 0,           \* message POSTs issued by the current sendEmail call
   calls |-> 0,           \* sendEmail calls made by this request
   allPosts |-> 0,        \* message POSTs issued by this request
   result |-> NoResult,   \* sendEmail's return value
   recipientList |-> <<>>, idx |-> 0, results |-> <<>>,
   resp |-> NoResp]

\* The bulk-send page before any interaction.
IdleClient ==
  [isProcessing |-> FALSE, isPaused |-> FALSE, isEnded |-> FALSE,
   pc |-> "idle",
   capPaused |-> FALSE,   \* isPaused as the running sendEmailsProgressively sees it
   capEnded |-> FALSE,    \* isEnded as the running sendEmailsProgressively sees it
   key |-> "", from |-> <<>>,
   recipientList |-> <<>>, i |-> 1, tempResults |-> <<>>,
   sent |-> 0,            \* single-send requests issued by this run
   processed |-> -1]      \* the count the completion toast reports

Init ==
  /\ now = 0
  /\ tokenCache = [n \in Names |-> NoEntry]
  /\ issued = 0
  /\ emailResults = <<>>
  /\ running = 0
  /\ srv = [h \in H |-> IdleHandler]
  /\ requests = 0
  /\ cl = IdleClient

\* -------------------------------------------------------- responses
\* res.status(c).json({ message: m })
MessageResp(c, m) == [NoResp EXCEPT !.code = c, !.message = m]

ErrorCodeNoFallback(err) == IF err.kind = "body" THEN err.status ELSE 0

\* result.error?.status || 500
ErrorCode(err) == IF err.kind = "body" /\ err.status # 0 THEN err.status ELSE FallbackCode

\* ------------------------------------------------------------------ clock
Tick ==
  /\ now < MaxTicks * TickMs
  /\ now' = now + TickMs
  /\ UNCHANGED <<tokenCache, issued, emailResults, running, srv, requests, cl>>


\* ------------------------------------------------------------- event loop
\* A handler gives up the thread when it awaits the network or has responded.
WaitPcs == {"idle", "oauth_wait", "subs_wait", "post_wait", "responded"}
Step(h, s) ==
  /\ srv' = [srv EXCEPT ![h] = s]
  /\ running' = IF s.pc \in WaitPcs THEN 0 ELSE h

NameOfFirstAccount(s) == Accounts[1].name

\* account.name, the key of the account's entry in tokenCache
Name(s) == Accounts[s.acct].name

\* ------------------------------------------------------------ result store
\* storeEmailResults: this.emailResults.set(randomUUID(), results)
StoreEmailResults(store, results) == Append(store, results)
GetEmailResultsOldest(store) == IF Len(store) > 0 THEN store[1] ELSE <<>>

\* getEmailResults(): the last entry's value, [] for an empty map
GetEmailResults(store) == IF Len(store) > 0 THEN store[Len(store)] ELSE <<>>

\* ------------------------------------------------------------ token cache
NeedsRefreshAlways(cached, t) == TRUE
NeedsRefreshStrict(cached, t) ==
  ~cached.present \/ (~cached.expires_at.nan /\ t > cached.expires_at.v)

\* !cachedToken || currentTime >= cachedToken.expires_at
NeedsRefresh(cached, t) == ~cached.present \/ JsGe(Num(t), cached.expires_at)

ExpiresAtNoMargin(t, expires_in) ==
  JsAdd(Num(t), JsMul(expires_in, Num(MsPerSecond)))

\* currentTime + (expires_in * 1000) - 60000
ExpiresAt(t, expires_in) ==
  JsSub(JsAdd(Num(t), JsMul(expires_in, Num(MsPerSecond))), Num(SafetyMarginMs))

CacheEvictedAfterFailure(cache, name) == [cache EXCEPT ![name] = NoEntry]

\* The token cache after getNewAccessToken threw: the catch block only rethrows.
CacheAfterFailure(cache, name) == cache

\* Lifetimes (seconds) the provider declares.
ExpiresInSeconds == {60, 120}
\* 2xx bodies of the OAuth endpoint: a fresh token with a lifetime, or a body
\* without access_token and expires_in.
OAuthBodies ==
  {[access_token |-> issued + 1, expires_in |-> Num(e)] : e \in
     IF issued < MaxTokens THEN ExpiresInSeconds ELSE {}}
  \cup {[access_token |-> Undefined, expires_in |-> NaN]}

SendEmailCatchRethrowsAuth(s, err) ==
  IF err = MsgP(AuthMsg)
  THEN [s EXCEPT !.pc = "responded", !.resp = MessageResp(FallbackCode, AuthMsg)]
  ELSE [s EXCEPT !.pc = "send_ret",
                 !.result = [success |-> FALSE, data |-> NullP, error |-> err]]

\* sendEmail's catch block: return { success: false, error: ... }
SendEmailCatch(s, err) ==
  [s EXCEPT !.pc = "send_ret",
            !.result = [success |-> FALSE, data |-> NullP, error |-> err]]

\* The locals of a finished getZohoAccessToken / sendEmail call are gone.
DropLocals(s) ==
  [s EXCEPT !.currentTime = 0, !.cachedToken = NoEntry, !.xchg = 0,
            !.got = Undefined, !.expires_in = NaN,
            !.accessToken = Undefined, !.bearerCred = "",
            !.subKey = FALSE,
            !.ret = "none"]

\* getZohoAccessToken, lines 41-46, and getNewAccessToken up to its POST.
GetZohoAccessToken(h) ==
  /\ running = h
  /\ srv[h].pc = "gzat"
  /\ LET s == srv[h]
         cached == tokenCache[Name(s)]
         s1 == [s EXCEPT !.currentTime = now, !.cachedToken = cached,
                         !.xchg = 0, !.got = Undefined, !.expires_in = NaN]
     IN IF NeedsRefresh(cached, now)
        THEN Step(h, [s1 EXCEPT !.pc = "oauth_wait", !.xchg = 1])
        ELSE Step(h, [s1 EXCEPT !.pc = "tok_ret"])
  /\ UNCHANGED <<now, tokenCache, issued, emailResults, requests, cl>>

\* The OAuth endpoint answers 2xx: lines 31-33 and 48-53.
OAuthSuccess(h) ==
  /\ running = 0
  /\ srv[h].pc = "oauth_wait"
  /\ \E body \in OAuthBodies :
       LET s == srv[h] IN
       /\ tokenCache' = [tokenCache EXCEPT ![Name(s)] =
            Entry(body.access_token, ExpiresAt(s.currentTime, body.expires_in),
                  Accounts[s.acct].cred)]
       /\ issued' = IF body.access_token # Undefined THEN issued + 1 ELSE issued
       /\ Step(h, [s EXCEPT !.pc = "tok_ret", !.got = body.access_token,
                            !.expires_in = body.expires_in])
  /\ UNCHANGED <<now, emailResults, requests, cl>>

\* The OAuth exchange fails (network error or non-2xx): lines 34-37 and 54-57.
\* The error reaches the route's catch from the pre-flight call and
\* sendEmail's catch from the calls sendEmail makes.
OAuthFailure(h) ==
  /\ running = 0
  /\ srv[h].pc = "oauth_wait"
  /\ LET s == srv[h] IN
     /\ tokenCache' = CacheAfterFailure(tokenCache, Name(s))
     /\ IF s.ret = "preflight"
        THEN Step(h, [s EXCEPT !.pc = "responded",
                               !.resp = MessageResp(FallbackCode, AuthMsg)])
        ELSE Step(h, SendEmailCatch(s, MsgP(AuthMsg)))
  /\ UNCHANGED <<now, issued, emailResults, requests, cl>>


\* ------------------------------------------------------------ send executor
\* sendEmail, lines 80-86 and the call of getZohoSubAccounts.
SendEmailStart(h) ==
  /\ running = h
  /\ srv[h].pc = "sendEmail"
  /\ LET s == [srv[h] EXCEPT !.calls = @ + 1, !.posts = 0, !.subKey = FALSE,
                             !.result = NoResult]
         k == FindAccount(s.key)
     IN IF k = 0
        THEN Step(h, SendEmailCatch(s, MsgP(InvalidPrimaryMsg)))
        ELSE Step(h, [s EXCEPT !.acct = k, !.ret = "sub", !.pc = "gzat"])
  /\ UNCHANGED <<now, tokenCache, issued, emailResults, requests, cl>>

\* getZohoSubAccounts, lines 64-74: read the cached token, GET the mailbox list.
IssueSubAccountsGet(h) ==
  /\ running = h
  /\ srv[h].pc = "tok_ret"
  /\ srv[h].ret = "sub"
  /\ LET s == srv[h] IN
     Step(h, [s EXCEPT !.accessToken = tokenCache[Name(s)].access_token,
                       !.bearerCred = tokenCache[Name(s)].cred,
                       !.pc = "subs_wait"])
  /\ UNCHANGED <<now, tokenCache, issued, emailResults, requests, cl>>

\* What the mailbox-list GET can end in: a 2xx body with a list of addresses,
\* a 2xx body without the list, a non-2xx body, no response at all.
SubsOutcomes ==
  {[kind |-> "list", list |-> l, status |-> 0] : l \in SUBSET FromAddresses}
  \cup {[kind |-> "nolist", list |-> {}, status |-> 0]}
  \cup {[kind |-> "error", list |-> {}, status |-> st] : st \in {0, 401}}
  \cup {[kind |-> "network", list |-> {}, status |-> 0]}

\* The mailbox list arrives: lines 75 and 90-96.
SubAccountsResponse(h) ==
  /\ running = 0
  /\ srv[h].pc = "subs_wait"
  /\ \E r \in SubsOutcomes :
       LET s == srv[h] IN
       CASE r.kind = "list" ->
              IF s.from \in r.list
              THEN Step(h, [s EXCEPT !.subKey = TRUE, !.ret = "send", !.pc = "gzat"])
              ELSE Step(h, SendEmailCatch(s, MsgP(FromNotFoundMsg)))
         [] r.kind = "nolist" -> Step(h, SendEmailCatch(s, MsgP(TypeErrorMsg)))
         [] r.kind = "error" -> Step(h, SendEmailCatch(s, BodyP(r.status, FALSE, "")))
         [] OTHER -> Step(h, SendEmailCatch(s, MsgP(NetworkMsg)))
  /\ UNCHANGED <<now, tokenCache, issued, emailResults, requests, cl>>

\* sendEmail, lines 97-113: read the token, test the from address, POST.
IssuePost(h) ==
  /\ running = h
  /\ srv[h].pc = "tok_ret"
  /\ srv[h].ret = "send"
  /\ LET s == [srv[h] EXCEPT !.accessToken = tokenCache[Name(srv[h])].access_token,
                             !.bearerCred = tokenCache[Name(srv[h])].cred]
     IN IF ~EmailShape(s.from)
        THEN Step(h, SendEmailCatch(s, MsgP(FromFormatMsg)))
        ELSE Step(h, [s EXCEPT !.posts = @ + 1, !.allPosts = @ + 1, !.pc = "post_wait"])
  /\ UNCHANGED <<now, tokenCache, issued, emailResults, requests, cl>>

\* What the message POST can end in.
PostOkBodies == {BodyP(0, TRUE, "m1"), BodyP(0, TRUE, ""), BodyP(0, FALSE, "")}
PostErrors == {BodyP(429, FALSE, ""), BodyP(0, FALSE, ""), MsgP(NetworkMsg)}

AfterPostRetryOnce(s, ok, payload) ==
  IF ok
  THEN [s EXCEPT !.pc = "send_ret",
                 !.result = [success |-> TRUE, data |-> payload, error |-> NullP]]
  ELSE IF s.posts < 2 THEN [s EXCEPT !.pc = "tok_ret"]
  ELSE SendEmailCatch(s, payload)

\* sendEmail after its POST settled: line 114 on 2xx, the catch block otherwise.
AfterPost(s, ok, payload) ==
  IF ok
  THEN [s EXCEPT !.pc = "send_ret",
                 !.result = [success |-> TRUE, data |-> payload, error |-> NullP]]
  ELSE SendEmailCatch(s, payload)

PostResponse(h) ==
  /\ running = 0
  /\ srv[h].pc = "post_wait"
  /\ \/ \E b \in PostOkBodies : Step(h, AfterPost(srv[h], TRUE, b))
     \/ \E e \in PostErrors : Step(h, AfterPost(srv[h], FALSE, e))
  /\ UNCHANGED <<now, tokenCache, issued, emailResults, requests, cl>>


\* ------------------------------------------------------------------ routes
\* A request reaches a free handler: schema parse, account lookup and the
\* pre-flight getZohoAccessToken call (lines 136-145 and 181-190).
Receive(h, route, origin, key, from, to, recipients) ==
  LET s == [IdleHandler EXCEPT !.route = route, !.origin = origin, !.key = key,
                               !.from = from, !.to = to, !.recipients = recipients]
      parsed == IF route = "single" THEN ZodEmail(to) ELSE Len(recipients) >= 1
      k == FindAccount(key)
  IN IF ~parsed
     THEN Step(h, [s EXCEPT !.pc = "responded", !.resp = MessageResp(FallbackCode, ZodMsg)])
     ELSE IF k = 0
     THEN Step(h, [s EXCEPT !.pc = "responded", !.resp = MessageResp(400, InvalidAccountMsg)])
     ELSE Step(h, [s EXCEPT !.acct = k, !.ret = "preflight", !.pc = "gzat"])

\* POST /api/send-bulk-email arrives.
ReceiveBulk(h) ==
  /\ running = 0
  /\ srv[h].route = "none"
  /\ cl.pc = "idle"
  /\ requests = 0
  /\ requests' = requests + 1
  /\ \E key \in RequestKeys, from \in FromAddresses, blob \in Blobs :
       Receive(h, "bulk", "direct", key, from, <<>>, blob)
  /\ UNCHANGED <<now, tokenCache, issued, emailResults, cl>>

\* The pre-flight token call returned: line 147 of the single route, lines
\* 192-193 of the bulk route.
PreflightDone(h) ==
  /\ running = h
  /\ srv[h].pc = "tok_ret"
  /\ srv[h].ret = "preflight"
  /\ LET s == srv[h] IN
     IF s.route = "single"
     THEN Step(h, [s EXCEPT !.pc = "sendEmail"])
     ELSE Step(h, [s EXCEPT !.recipientList = ParseRecipients(s.recipients),
                            !.recipients = <<>>,
                            !.results = <<>>, !.idx = 1, !.pc = "loop"])
  /\ UNCHANGED <<now, tokenCache, issued, emailResults, requests, cl>>

\* res.json({ success: true, results })
BulkOkResp == [NoResp EXCEPT !.code = OkCode, !.success = TRUE]

\* for (const toAddress of recipientList): the next recipient's sendEmail call,
\* or lines 213-214 once the list is exhausted.
BulkLoop(h) ==
  /\ running = h
  /\ srv[h].pc = "loop"
  /\ LET s == srv[h] IN
     IF s.idx <= Len(s.recipientList)
     THEN /\ Step(h, [s EXCEPT !.to = s.recipientList[s.idx], !.pc = "sendEmail"])
          /\ UNCHANGED emailResults
     ELSE /\ emailResults' = StoreEmailResults(emailResults, s.results)
          /\ Step(h, [s EXCEPT !.pc = "responded", !.resp = BulkOkResp])
  /\ UNCHANGED <<now, tokenCache, issued, requests, cl>>

\* The EmailResult the bulk route builds, lines 203-210.
BulkResult(to, r) ==
  [recipient |-> to,
   status |-> IF r.success THEN "Success" ELSE "Failed",
   messageId |-> IF r.success THEN r.data.messageId ELSE "",
   responseCode |-> IF r.success THEN OkCode ELSE ErrorCode(r.error),
   error |-> IF r.success THEN NullP ELSE r.error,
   fullResponse |-> IF r.success THEN r.data ELSE r.error]

PushResultUnlessFailed(results, r) ==
  IF r.status = "Failed" THEN results ELSE Append(results, r)

PushResultInFront(results, r) == <<r>> \o results

\* results.push(...)
PushResult(results, r) == Append(results, r)

\* result.data.data.messageId throws when the 2xx body has no data member.
MessageIdThrows(r) == r.success /\ ~r.data.hasData

SendReturnBulkStoresPartial(h) ==
  /\ running = h
  /\ srv[h].pc = "send_ret"
  /\ srv[h].route = "bulk"
  /\ LET s == srv[h] IN
     IF MessageIdThrows(s.result)
     THEN /\ emailResults' = StoreEmailResults(emailResults, s.results)
          /\ Step(h, [DropLocals(s) EXCEPT !.pc = "responded",
                                 !.resp = MessageResp(FallbackCode, TypeErrorMsg)])
     ELSE /\ UNCHANGED emailResults
          /\ Step(h, [DropLocals(s) EXCEPT
                          !.results = PushResult(@, BulkResult(s.to, s.result)),
                          !.idx = @ + 1, !.pc = "loop"])
  /\ UNCHANGED <<now, tokenCache, issued, requests, cl>>

\* sendEmail returned to the bulk loop: lines 203-211, or the route's catch.
SendReturnBulk(h) ==
  /\ running = h
  /\ srv[h].pc = "send_ret"
  /\ srv[h].route = "bulk"
  /\ LET s == srv[h] IN
     IF MessageIdThrows(s.result)
     THEN Step(h, [DropLocals(s) EXCEPT !.pc = "responded",
                            !.resp = MessageResp(FallbackCode, TypeErrorMsg)])
     ELSE Step(h, [DropLocals(s) EXCEPT
                     !.results = PushResult(@, BulkResult(s.to, s.result)),
                     !.idx = @ + 1, !.pc = "loop"])
  /\ UNCHANGED <<now, tokenCache, issued, emailResults, requests, cl>>

\* The single route's answer, lines 156-172.
SingleResponse(r) ==
  IF r.success
  THEN [NoResp EXCEPT !.code = OkCode, !.success = TRUE,
                      !.messageId = r.data.messageId, !.responseCode = OkCode,
                      !.fullResponse = r.data, !.message = "Email sent successfully!"]
  ELSE [NoResp EXCEPT !.code = FallbackCode, !.success = FALSE,
                      !.message = "Failed to send email",
                      !.responseCode = ErrorCode(r.error),
                      !.fullResponse = r.error, !.error = r.error]

\* sendEmail returned to the single route: lines 156-176.
SendReturnSingle(h) ==
  /\ running = h
  /\ srv[h].pc = "send_ret"
  /\ srv[h].route = "single"
  /\ LET s == srv[h] IN
     IF MessageIdThrows(s.result)
     THEN Step(h, [DropLocals(s) EXCEPT !.pc = "responded",
                            !.resp = MessageResp(FallbackCode, TypeErrorMsg)])
     ELSE Step(h, [DropLocals(s) EXCEPT !.pc = "responded",
                            !.resp = SingleResponse(s.result)])
  /\ UNCHANGED <<now, tokenCache, issued, emailResults, requests, cl>>


\* ------------------------------------------------- client bulk sequencer
\* Array.prototype.join('\n')
RECURSIVE Join(_)
Join(lines) ==
  IF lines = <<>> THEN <<>>
  ELSE IF Len(lines) = 1 THEN lines[1]
  ELSE lines[1] \o <<NL>> \o Join(Tail(lines))

AdvanceSkipsStoreOnCancel(c) ==
  IF c.i > Len(c.recipientList) THEN [c EXCEPT !.isProcessing = FALSE, !.pc = "await_store"]
  ELSE IF c.capPaused /\ ~c.capEnded THEN [c EXCEPT !.pc = "poll"]
  ELSE IF c.capEnded
       THEN [c EXCEPT !.isProcessing = FALSE, !.pc = "done", !.processed = Len(c.tempResults)]
  ELSE [c EXCEPT !.pc = "await_send", !.sent = @ + 1]

\* The loop of sendEmailsProgressively from the top of iteration c.i up to
\* its next await (lines 343-361, 392-395).  isPaused and isEnded are the
\* values of the render that created the running function.
Advance(c) ==
  IF c.i > Len(c.recipientList) THEN [c EXCEPT !.isProcessing = FALSE, !.pc = "await_store"]
  ELSE IF c.capPaused /\ ~c.capEnded THEN [c EXCEPT !.pc = "poll"]
  ELSE IF c.capEnded THEN [c EXCEPT !.isProcessing = FALSE, !.pc = "await_store"]
  ELSE [c EXCEPT !.pc = "await_send", !.sent = @ + 1]

\* onSubmit and sendEmailsProgressively up to its first await (lines 420-434,
\* 332-361).  The function that runs is the one created by the render on
\* screen at submission.
Submit ==
  /\ cl.pc = "idle"
  /\ ~cl.isProcessing
  /\ srv[1].route = "none"
  /\ requests = 0
  /\ requests' = requests + 1
  /\ \E key \in RequestKeys, from \in FromAddresses, blob \in Blobs :
       /\ ParseRecipients(blob) # <<>>
       /\ cl' = Advance([IdleClient EXCEPT
            !.isProcessing = TRUE, !.isPaused = FALSE, !.isEnded = FALSE,
            !.capPaused = cl.isPaused, !.capEnded = cl.isEnded,
            !.key = key, !.from = from,
            !.recipientList = ParseRecipients(Join(ParseRecipients(blob))),
            !.i = 1])
  /\ UNCHANGED <<now, tokenCache, issued, emailResults, running, srv>>

\* The Pause / Resume button: setIsPaused(!isPaused), line 724.
ClickPause ==
  /\ cl.isProcessing
  /\ cl' = [cl EXCEPT !.isPaused = ~cl.isPaused]
  /\ UNCHANGED <<now, tokenCache, issued, emailResults, running, srv, requests>>

\* The End Job button: setIsEnded(true), line 731.
ClickEnd ==
  /\ cl.isProcessing
  /\ cl' = [cl EXCEPT !.isEnded = TRUE]
  /\ UNCHANGED <<now, tokenCache, issued, emailResults, running, srv, requests>>

\* The 100 ms poll timer fires and the while condition is tested again
\* (lines 345-347).
Poll ==
  /\ cl.pc = "poll"
  /\ cl' = Advance(cl)
  /\ UNCHANGED <<now, tokenCache, issued, emailResults, running, srv, requests>>

\* POST /api/send-single-email reaches the server.
ReceiveSingle(h) ==
  /\ running = 0
  /\ srv[h].route = "none"
  /\ cl.pc = "await_send"
  /\ Receive(h, "single", "client", cl.key, cl.from, cl.recipientList[cl.i], <<>>)
  /\ UNCHANGED <<now, tokenCache, issued, emailResults, requests, cl>>

\* The EmailResult built from a response body, lines 364-371.
ClientResult(to, resp) ==
  [recipient |-> to,
   status |-> IF resp.success THEN "Success" ELSE "Failed",
   messageId |-> resp.messageId,
   responseCode |-> resp.responseCode,
   error |-> IF resp.success THEN NullP ELSE resp.error,
   fullResponse |-> resp.fullResponse]

\* The EmailResult built in the catch block, lines 379-386.
ClientCatchResult(to, m) ==
  [recipient |-> to, status |-> "Failed", messageId |-> "",
   responseCode |-> FallbackCode, error |-> MsgP(m), fullResponse |-> MsgP(m)]

\* apiRequest (lib/queryClient) rejecting for a response code: never for a
\* 2xx response; for any other code it may resolve or reject.
ApiRequestMayReject(code) == code < 200 \/ code >= 300

\* The response arrives: the result is appended and the 500 ms delay starts
\* (lines 362-376).
ClientReceive ==
  /\ cl.pc = "await_send"
  /\ srv[1].pc = "responded"
  /\ srv[1].origin = "client"
  /\ cl' = [cl EXCEPT
       !.tempResults = Append(@, ClientResult(cl.recipientList[cl.i], srv[1].resp)),
       !.pc = "delay"]
  /\ Step(1, IdleHandler)
  /\ UNCHANGED <<now, tokenCache, issued, emailResults, requests>>

\* apiRequest rejects: the catch block appends and the loop goes on without
\* the delay (lines 378-390).
ClientReceiveRejected ==
  /\ cl.pc = "await_send"
  /\ srv[1].pc = "responded"
  /\ srv[1].origin = "client"
  /\ ApiRequestMayReject(srv[1].resp.code)
  /\ cl' = Advance([cl EXCEPT
       !.tempResults = Append(@, ClientCatchResult(cl.recipientList[cl.i], srv[1].resp.message)),
       !.i = @ + 1])
  /\ Step(1, IdleHandler)
  /\ UNCHANGED <<now, tokenCache, issued, emailResults, requests>>

\* The 500 ms delay is over, line 376: next iteration.
DelayDone ==
  /\ cl.pc = "delay"
  /\ cl' = Advance([cl EXCEPT !.i = @ + 1])
  /\ UNCHANGED <<now, tokenCache, issued, emailResults, running, srv, requests>>

\* POST /api/store-bulk-results with an array (routes.ts 314-319), then the
\* completion toast (lines 400-405).
StoreBulkResults ==
  /\ cl.pc = "await_store"
  /\ running = 0
  /\ emailResults' = StoreEmailResults(emailResults, cl.tempResults)
  /\ cl' = [cl EXCEPT !.pc = "done", !.processed = Len(cl.tempResults)]
  /\ UNCHANGED <<now, tokenCache, issued, running, srv, requests>>

\* The store request fails on the way: the catch block logs, the toast
\* follows (lines 396-405).
StoreRequestFails ==
  /\ cl.pc = "await_store"
  /\ cl' = [cl EXCEPT !.pc = "done", !.processed = Len(cl.tempResults)]
  /\ UNCHANGED <<now, tokenCache, issued, emailResults, running, srv, requests>>

\* ------------------------------------------------------------ specification
Executor(h) ==
  \/ GetZohoAccessToken(h)
  \/ OAuthSuccess(h)
  \/ OAuthFailure(h)
  \/ PreflightDone(h)
  \/ SendEmailStart(h)
  \/ IssueSubAccountsGet(h)
  \/ SubAccountsResponse(h)
  \/ IssuePost(h)
  \/ PostResponse(h)

BulkRoute(h) ==
  \/ ReceiveBulk(h)
  \/ BulkLoop(h)
  \/ SendReturnBulk(h)

Client ==
  \/ Submit
  \/ ClickPause
  \/ ClickEnd
  \/ Poll
  \/ ClientReceive
  \/ ClientReceiveRejected
  \/ DelayDone
  \/ StoreBulkResults
  \/ StoreRequestFails

\* The server's bulk route, called directly.
Next == Tick \/ (\E h \in H : Executor(h) \/ BulkRoute(h))
Spec == Init /\ [][Next]_vars

\* The bulk-send page driving the single route.
NextClient == Tick \/ ReceiveSingle(1) \/ Executor(1) \/ SendReturnSingle(1) \/ Client
\* The page as earlier runs may have left it: Pause and End Job set isPaused
\* and isEnded, and nothing resets them when a run ends.
InitClient ==
  /\ now = 0
  /\ tokenCache = [n \in Names |-> NoEntry]
  /\ issued = 0
  /\ emailResults = <<>>
  /\ running = 0
  /\ srv = [h \in H |-> IdleHandler]
  /\ requests = 0
  /\ \E p \in BOOLEAN, e \in BOOLEAN :
       cl = [IdleClient EXCEPT !.isPaused = p, !.isEnded = e]
SpecClient == InitClient /\ [][NextClient]_vars

\* What the run does by itself once started: timers fire (lines 346, 376)
\* and awaited requests are answered (lines 361, 395).
RunStep ==
  \/ Poll
  \/ ClientReceive
  \/ ClientReceiveRejected
  \/ DelayDone
  \/ StoreBulkResults
  \/ StoreRequestFails
\* The server serves what it received and the provider answers.
ServeStep == ReceiveSingle(1) \/ Executor(1) \/ SendReturnSingle(1)
\* The page under an event loop that runs every ready callback; button
\* presses are the user's and may never come.
SpecClientFair == SpecClient /\ WF_vars(RunStep) /\ WF_vars(ServeStep)

\* Either way of running a bulk job.
NextAll == Next \/ NextClient
SpecAll == InitClient /\ [][NextAll]_vars

\* ------------------------------------------------------ result store routes
\* Results as a page posts them.
SampleResults ==
  {[recipient |-> <<"a">>, status |-> "Success", messageId |-> "m1",
    responseCode |-> OkCode, error |-> NullP, fullResponse |-> BodyP(0, TRUE, "m1")],
   [recipient |-> <<"b">>, status |-> "Failed", messageId |-> "",
    responseCode |-> FallbackCode, error |-> MsgP(NetworkMsg),
    fullResponse |-> MsgP(NetworkMsg)]}

RECURSIVE BatchesUpTo(_)
BatchesUpTo(n) ==
  IF n = 0 THEN {<<>>}
  ELSE LET shorter == BatchesUpTo(n - 1)
       IN shorter \cup {Append(b, r) : b \in {t \in shorter : Len(t) = n - 1},
                                       r \in SampleResults}
Batches == BatchesUpTo(MaxBatchLen)

\* POST /api/store-bulk-results, lines 314-327: an array is stored, anything
\* else is answered 400.
StoreBulkResultsRoute(h) ==
  /\ running = 0
  /\ srv[h].route = "none"
  /\ Len(emailResults) < MaxStores
  /\ \E isArray \in BOOLEAN, results \in Batches :
       LET s == [IdleHandler EXCEPT !.route = "store", !.origin = "direct",
                                    !.pc = "responded"]
       IN IF isArray
          THEN /\ emailResults' = StoreEmailResults(emailResults, results)
               /\ Step(h, [s EXCEPT !.results = results, !.resp = BulkOkResp])
          ELSE /\ results = <<>>
               /\ emailResults' = emailResults
               /\ Step(h, [s EXCEPT !.resp = [NoResp EXCEPT !.code = 400,
                                                !.message = "Results must be an array"]])
  /\ UNCHANGED <<now, tokenCache, issued, requests, cl>>

\* GET /api/bulk-results, lines 304-311: res.json(results).
BulkResultsRoute(h) ==
  /\ running = 0
  /\ srv[h].route = "none"
  /\ Step(h, [IdleHandler EXCEPT !.route = "get", !.origin = "direct",
                                 !.pc = "responded",
                                 !.results = GetEmailResults(emailResults),
                                 !.resp = [NoResp EXCEPT !.code = OkCode]])
  /\ UNCHANGED <<now, tokenCache, issued, emailResults, requests, cl>>

\* POST /api/send-single-email called directly, one request after the other.
SingleRoute(h) ==
  /\ running = 0
  /\ srv[h].route = "none"
  /\ cl.pc = "idle"
  /\ requests < MaxRequests
  /\ requests' = requests + 1
  /\ \E key \in DirectKeys, from \in FromAddresses :
       Receive(h, "single", "direct", key, from, <<"a">>, <<>>)
  /\ UNCHANGED <<now, tokenCache, issued, emailResults, cl>>

\* The response of a direct request has been sent: the request is over.
Finish(h) ==
  /\ srv[h].route \in {"store", "get", "single"}
  /\ srv[h].origin = "direct"
  /\ srv[h].pc = "responded"
  /\ Step(h, IdleHandler)
  /\ UNCHANGED <<now, tokenCache, issued, emailResults, requests, cl>>

\* The result store behind its two routes.
NextStore == StoreBulkResultsRoute(1) \/ BulkResultsRoute(1) \/ Finish(1)
SpecStore == Init /\ [][NextStore]_vars

\* The bulk route called once a page may have stored batches.
NextFrame ==
  Tick \/ StoreBulkResultsRoute(1) \/ Finish(1) \/ Executor(1) \/ BulkRoute(1)
SpecFrame == Init /\ [][NextFrame]_vars

\* Single sends for any of the accounts, one after the other.
NextAccounts ==
  Tick \/ SingleRoute(1) \/ Executor(1) \/ SendReturnSingle(1) \/ Finish(1)
SpecAccounts == Init /\ [][NextAccounts]_vars

\* Two requests served at the same time: their handlers take turns on the
\* event loop at every await.
H2 == {1, 2}
InitRace ==
  /\ now = 0
  /\ tokenCache = [n \in Names |-> NoEntry]
  /\ issued = 0
  /\ emailResults = <<>>
  /\ running = 0
  /\ srv = [h \in H2 |-> IdleHandler]
  /\ requests = 0
  /\ cl = IdleClient
NextRace ==
  Tick \/ (\E h \in H2 : SingleRoute(h) \/ Executor(h) \/ SendReturnSingle(h) \/ Finish(h))
SpecRace == InitRace /\ [][NextRace]_vars

TypeOK ==
  /\ now \in 0..(MaxTicks * TickMs)
  /\ running \in H2 \cup {0}
  /\ issued \in 0..MaxTokens


\* ================================================================== claims
\* Positions of a handler inside sendEmail (its own code and its callees).
InSendEmail(s) ==
  \/ s.pc \in {"sendEmail", "subs_wait", "post_wait"}
  \/ s.pc \in {"gzat", "oauth_wait", "tok_ret"} /\ s.ret \in {"sub", "send"}

\* results holds one result per list entry, in list order, for a prefix of the list.
IsPrefixOf(results, list) ==
  /\ Len(results) <= Len(list)
  /\ \A k \in 1..Len(results) : results[k].recipient = list[k]

\* A parsed list holds trimmed, non-empty lines.
TrimmedLines(list) == \A k \in 1..Len(list) : list[k] # <<>> /\ Trim(list[k]) = list[k]

\* C1: during a bulk run (server loop or client sequencer) the result
\* collection is a prefix of the parsed recipient list: result k is for
\* recipient k, a trimmed input line, one result per recipient whose send has
\* returned, none skipped, duplicated or reordered.
C1_ResultsArePrefix ==
  /\ \A h \in H :
       LET s == srv[h] IN
       s.route = "bulk" =>
         /\ IsPrefixOf(s.results, s.recipientList)
         /\ TrimmedLines(s.recipientList)
         /\ s.pc \in {"loop", "sendEmail"} => Len(s.results) = s.calls /\ s.idx = s.calls + 1
         /\ s.pc = "send_ret" \/ (InSendEmail(s) /\ s.pc # "sendEmail") =>
              Len(s.results) = s.calls - 1
         /\ s.pc = "responded" /\ s.resp.code = OkCode =>
              Len(s.results) = Len(s.recipientList)
  /\ IsPrefixOf(cl.tempResults, cl.recipientList)
  /\ TrimmedLines(cl.recipientList)
  /\ cl.pc = "poll" => Len(cl.tempResults) = cl.sent /\ cl.i = cl.sent + 1
  /\ cl.pc = "await_send" => Len(cl.tempResults) = cl.sent - 1 /\ cl.i = cl.sent
  /\ cl.pc \in {"delay", "await_store", "done"} => Len(cl.tempResults) = cl.sent

C1_Witness ==
  \E h \in H :
    /\ srv[h].route = "bulk"
    /\ Len(srv[h].results) = 2
    /\ srv[h].results[1].recipient # srv[h].results[2].recipient

\* The sequencer dispatches the next recipient in this step.
Dispatches == cl'.sent = cl.sent + 1

\* C2: once End Job has been clicked during a run (and no pause is active)
\* the sequencer dispatches no further recipient.
C2_CancelStopsDispatch ==
  [][(cl.isProcessing /\ cl.isEnded /\ ~cl.isPaused) => ~Dispatches]_vars

\* C3: while the pause signal is active during a run the sequencer issues no
\* new send.
C3_PauseSuspendsDispatch ==
  [][(cl.isProcessing /\ cl.isPaused) => ~Dispatches]_vars

\* C4: in the bulk route a failed send never aborts the run: once the loop
\* has started the route answers 200 with one result for every recipient.
C4_FailureNeverAborts ==
  \A h \in H :
    (srv[h].route = "bulk" /\ srv[h].pc = "responded" /\ srv[h].calls > 0) =>
      /\ srv[h].resp.code = OkCode
      /\ Len(srv[h].results) = Len(srv[h].recipientList)

Tagged(r) ==
  \/ r.success /\ r.data.kind = "body" /\ r.error = NullP
  \/ ~r.success /\ r.error.kind \in {"msg", "body"} /\ r.data = NullP

\* C6: whatever fails inside sendEmail, control leaves it only by its return
\* with a tagged value, never by an exception reaching the route.
C6_SendEmailNeverThrows ==
  [][\A h \in H :
       InSendEmail(srv[h]) =>
         \/ InSendEmail(srv'[h])
         \/ srv'[h].pc = "send_ret" /\ Tagged(srv'[h].result)]_vars

C6_Witness ==
  \E h \in H :
    /\ srv[h].pc = "send_ret"
    /\ srv[h].result = [success |-> FALSE, data |-> NullP, error |-> MsgP(AuthMsg)]

\* C7: one sendEmail call issues at most one message POST, and a bulk run
\* over n recipients at most n.
C7_NoRetry ==
  \A h \in H :
    /\ srv[h].posts <= 1
    /\ srv[h].allPosts <= srv[h].calls
    /\ srv[h].route = "bulk" => srv[h].calls <= Len(srv[h].recipientList)

C7_Witness ==
  \E h \in H :
    /\ srv[h].pc = "send_ret"
    /\ srv[h].posts = 1
    /\ srv[h].result.error = BodyP(429, FALSE, "")
    /\ srv[h].calls = 2

\* The entry is cached and unexpired at time t.
Unexpired(e, t) == e.present /\ ~e.expires_at.nan /\ t < e.expires_at.v

\* C8: a getZohoAccessToken call that finds the account's entry cached and
\* unexpired makes no OAuth exchange and leaves the cache as it is.
C8_ValidEntryNoExchange ==
  [][\A h \in H :
       (srv[h].pc = "gzat" /\ srv'[h].pc # "gzat"
          /\ Unexpired(tokenCache[Name(srv[h])], now)) =>
         /\ srv'[h].pc = "tok_ret"
         /\ srv'[h].xchg = 0
         /\ tokenCache' = tokenCache]_vars

C8_Witness ==
  \E h \in H :
    /\ srv[h].pc = "tok_ret"
    /\ srv[h].ret = "sub"
    /\ srv[h].xchg = 0
    /\ Unexpired(srv[h].cachedToken, srv[h].currentTime)
    /\ tokenCache[Name(srv[h])] = srv[h].cachedToken

\* The call found an entry that had expired (expires_at <= now).
FoundExpired(s) == s.cachedToken.present /\ JsGe(Num(s.currentTime), s.cachedToken.expires_at)

\* C9: when getZohoAccessToken finds an expired entry, the provider call that
\* depends on it goes out after exactly one exchange and carries the token
\* that exchange returned, not the expired one.
C9_ExpiredEntryRefreshedOnce ==
  \A h \in H :
    LET s == srv[h] IN
    /\ s.xchg <= 1
    /\ (s.pc \in {"subs_wait", "post_wait"} /\ FoundExpired(s)) =>
         /\ s.xchg = 1
         /\ s.accessToken = s.got
         /\ s.accessToken # s.cachedToken.access_token

C9_Witness ==
  \E h \in H :
    /\ srv[h].pc = "post_wait"
    /\ FoundExpired(srv[h])
    /\ srv[h].got # Undefined
    /\ srv[h].accessToken = srv[h].got

C11_MalformedBodyNotCached ==
  \A n \in Names :
    tokenCache[n].present =>
      (tokenCache[n].access_token # Undefined /\ ~tokenCache[n].expires_at.nan)

\* C12: for a from address without the shape local@domain.tld, sendEmail
\* never issues the message POST and returns a failure.
C12_MalformedFromNeverPosted ==
  \A h \in H :
    srv[h].from = BadFrom =>
      /\ srv[h].pc # "post_wait"
      /\ srv[h].allPosts = 0
      /\ srv[h].pc = "send_ret" => ~srv[h].result.success

\* The provider lists the malformed address as a mailbox and the pattern
\* test of sendEmail stops the send.
C12_Witness ==
  \E h \in H :
    /\ srv[h].from = BadFrom
    /\ srv[h].pc = "send_ret"
    /\ srv[h].result.error = MsgP(FromFormatMsg)

\* The last element of a non-empty sequence.
Last(seq) == seq[Len(seq)]

\* C13: when the message POST was answered 2xx (sendEmail returned success),
\* the bulk route records a Success result for that recipient carrying the
\* response body as fullResponse, whatever the body contains.
C13_OkAnswerIsSuccess ==
  [][\A h \in H :
       (srv[h].pc = "send_ret" /\ srv[h].result.success /\ srv'[h].pc # "send_ret") =>
         /\ srv'[h].pc = "loop"
         /\ Len(srv'[h].results) = Len(srv[h].results) + 1
         /\ Last(srv'[h].results).status = "Success"
         /\ Last(srv'[h].results).fullResponse = srv[h].result.data]_vars

\* r is the Failed result the claim expects for the provider's error body b.
KeepsErrorBody(r, b) ==
  /\ r.status = "Failed"
  /\ r.responseCode = (IF b.status # 0 THEN b.status ELSE FallbackCode)
  /\ r.fullResponse = b

\* C14: when the message POST failed with an error body b, the result
\* recorded for the recipient is Failed, has b.status (500 without one) as
\* its responseCode and b as its fullResponse, in the bulk route and in the
\* client sequencer.
C14_ErrorBodyKept ==
  [][/\ \A h \in H :
          (/\ srv[h].route = "bulk" /\ srv[h].pc = "send_ret" /\ srv[h].posts = 1
           /\ ~srv[h].result.success /\ srv[h].result.error.kind = "body"
           /\ srv'[h].pc # "send_ret") =>
            /\ Len(srv'[h].results) = Len(srv[h].results) + 1
            /\ KeepsErrorBody(Last(srv'[h].results), srv[h].result.error)
     /\ (/\ cl.pc = "await_send" /\ srv[1].pc = "responded" /\ srv[1].posts = 1
         /\ ~srv[1].resp.success /\ srv[1].resp.fullResponse.kind = "body"
         /\ Len(cl'.tempResults) = Len(cl.tempResults) + 1) =>
          KeepsErrorBody(Last(cl'.tempResults), srv[1].resp.fullResponse)]_vars

\* The characters of s that are not spaces.
NoSpaces(s) == SelectSeq(s, LAMBDA c : c # SP)

\* s without leading, trailing and repeated line breaks.
RECURSIVE SqueezeBreaks(_, _)
SqueezeBreaks(s, atStart) ==
  IF s = <<>> THEN <<>>
  ELSE IF Head(s) = NL
       THEN IF atStart \/ \A k \in 1..Len(s) : s[k] = NL
            THEN SqueezeBreaks(Tail(s), atStart)
            ELSE <<NL>> \o SqueezeBreaks(Tail(s), TRUE)
       ELSE <<Head(s)>> \o SqueezeBreaks(Tail(s), FALSE)

\* list followed line by line, a line break between two lines.
RECURSIVE Lines(_)
Lines(list) ==
  IF list = <<>> THEN <<>>
  ELSE IF Len(list) = 1 THEN list[1]
  ELSE list[1] \o <<NL>> \o Lines(Tail(list))

\* list holds the non-blank lines of blob, each one trimmed, all of them, in
\* input order: reading the list line by line gives the text of the blob
\* once blank lines and the spaces around lines are left out.
IsLinesOf(list, blob) ==
  /\ \A k \in 1..Len(list) :
       /\ list[k] # <<>>
       /\ Head(list[k]) # SP /\ list[k][Len(list[k])] # SP
       /\ \A j \in 1..Len(list[k]) : list[k][j] # NL
       /\ \E a \in 1..Len(blob) : list[k] = SubSeq(blob, a, a + Len(list[k]) - 1)
  /\ NoSpaces(Lines(list)) = SqueezeBreaks(NoSpaces(blob), TRUE)

Stores(h) ==
  srv[h].route = "none" /\ srv'[h].route = "store" /\ srv'[h].resp.code = OkCode

\* C16: getEmailResults() is the batch of the most recent store call, in the
\* stored order: a store call makes its batch the answer, nothing else
\* changes the answer, the results route returns it, and it is empty as long
\* as nothing was stored.
C16_LatestBatchReturned ==
  [][\A h \in H :
       /\ Stores(h) => GetEmailResults(emailResults') = srv'[h].results
       /\ ~Stores(h) => GetEmailResults(emailResults') = GetEmailResults(emailResults)
       /\ (srv[h].route = "none" /\ srv'[h].route = "get") =>
            /\ srv'[h].results = GetEmailResults(emailResults)
            /\ emailResults = <<>> => srv'[h].results = <<>>]_vars

\* The results route answered after two different batches were stored.
C16_Witness ==
  \E h \in H :
    /\ srv[h].route = "get"
    /\ Len(emailResults) = 2
    /\ emailResults[1] # emailResults[2]
    /\ srv[h].results = emailResults[2]

\* C17: the result store holds one batch at most, the latest: a store call
\* replaces what was stored before.
C17_StoreHoldsOneBatch == Len(emailResults) <= 1

\* C18: a bulk request for a configured account whose recipients input has
\* no non-empty line is answered as completed, with an empty batch: no send
\* was issued and the empty batch is what the result store returns.
C18_EmptyInputCompletes ==
  \A h \in H :
    (/\ srv[h].route = "bulk" /\ srv[h].pc = "responded"
     /\ FindAccount(srv[h].key) # 0
     /\ ParseRecipients(srv[h].recipients) = <<>> /\ srv[h].recipientList = <<>>) =>
      /\ srv[h].resp.code = OkCode
      /\ srv[h].resp.success
      /\ srv[h].calls = 0
      /\ srv[h].results = <<>>
      /\ Len(emailResults) = 1
      /\ GetEmailResults(emailResults) = <<>>

\* The handler has a provider call (mailbox list or message POST) in flight.
CallInFlight(s) == s.pc \in {"subs_wait", "post_wait"}

\* No other configured account has the name of account k.
UniqueName(k) ==
  \A j \in DOMAIN Accounts : j # k => Accounts[j].name # Accounts[k].name

StoresEntry(h) == srv[h].pc = "oauth_wait" /\ srv'[h].pc = "tok_ret"

\* C20: every cached entry has expires_at = (time of the fetch) +
\* expires_in * 1000 - 60000 for the lifetime the provider declared: entries
\* are written by an exchange only, and each one written satisfies the
\* equation; and a getZohoAccessToken call that finds an entry with
\* now >= expires_at starts an exchange, as it does for an absent entry.
C20_ExpiryArithmetic ==
  [][/\ \A n \in Names :
          tokenCache'[n] # tokenCache[n] => \E h \in H : StoresEntry(h) /\ Name(srv[h]) = n
     /\ \A h \in H :
          StoresEntry(h) =>
            /\ ~srv'[h].expires_in.nan
            /\ tokenCache'[Name(srv[h])].expires_at =
                 Num(srv[h].currentTime + srv'[h].expires_in.v * 1000 - 60000)
     /\ \A h \in H :
          LET e == tokenCache[Name(srv[h])] IN
          (/\ srv[h].pc = "gzat" /\ srv'[h].pc # "gzat"
           /\ e.present /\ ~e.expires_at.nan /\ now >= e.expires_at.v) =>
            (srv'[h].pc = "oauth_wait" /\ srv'[h].xchg = 1)]_vars

\* C21: when the loop of the sequencer ends, by exhausting the list or by
\* the cancel test, the next thing is the store request carrying the whole
\* result collection; completion is signalled only once that request has
\* settled, with the number of results as its count, and what the request
\* stored is exactly the collection.
C21_StoreThenSignal ==
  [][/\ (cl.isProcessing /\ ~cl'.isProcessing) => cl'.pc = "await_store"
     /\ (cl.pc # "done" /\ cl'.pc = "done") =>
          /\ cl.pc = "await_store"
          /\ cl'.tempResults = cl.tempResults
          /\ cl'.processed = Len(cl.tempResults)
          /\ emailResults' # emailResults =>
               GetEmailResults(emailResults') = cl.tempResults
     /\ (cl.pc = "await_store" /\ cl'.pc # "await_store") => cl'.pc = "done"]_vars

\* A run over two recipients has stored its two results and reported 2.
C21_Witness ==
  /\ cl.pc = "done"
  /\ cl.processed = 2
  /\ Len(cl.tempResults) = 2
  /\ GetEmailResults(emailResults) = cl.tempResults

\* C22: recipients are processed one at a time: at most one send of a run
\* is without its appended outcome, and the send for the next recipient is
\* issued only when the outcomes of all earlier ones have been appended, in
\* the bulk route and in the sequencer of the page.
C22_OneAtATime ==
  [][/\ \A h \in H :
          srv[h].route = "bulk" =>
            /\ srv[h].calls - Len(srv[h].results) \in {0, 1}
            /\ srv'[h].calls = srv[h].calls + 1 =>
                 /\ Len(srv[h].results) = srv[h].calls
                 /\ srv[h].to = srv[h].recipientList[srv[h].calls + 1]
     /\ cl.sent - Len(cl.tempResults) \in {0, 1}
     /\ (cl.pc # "idle" /\ Dispatches) => Len(cl'.tempResults) = cl.sent]_vars

\* The message for the second recipient is in flight, the outcome of the
\* first one, a failure, is in the collection.
C22_Witness ==
  \E h \in H :
    /\ srv[h].route = "bulk"
    /\ srv[h].pc = "post_wait"
    /\ srv[h].calls = 2
    /\ Len(srv[h].results) = 1
    /\ srv[h].results[1].status = "Failed"

\* Handler h is back from a getZohoAccessToken call.
Returned(s) == s.pc = "tok_ret"

\* C23: of two requests for the same account name that both find the entry
\* absent or expired each makes its own exchange; the answer of an exchange
\* overwrites the entry, so the cache holds the token of the exchange
\* answered last; and a caller back from getZohoAccessToken finds in the
\* cache a token the provider issued.
C23_LastWriteWins ==
  [][\A h \in H2 :
       /\ (/\ srv[h].pc = "gzat" /\ srv'[h].pc # "gzat"
           /\ ~Unexpired(tokenCache[Name(srv[h])], now)
           /\ ~tokenCache[Name(srv[h])].expires_at.nan \/ ~tokenCache[Name(srv[h])].present) =>
            (srv'[h].pc = "oauth_wait" /\ srv'[h].xchg = 1)
       /\ StoresEntry(h) =>
            tokenCache'[Name(srv[h])].access_token = srv'[h].got
       /\ Returned(srv'[h]) =>
            /\ tokenCache'[Name(srv'[h])].present
            /\ tokenCache'[Name(srv'[h])].access_token \in 1..issued']_vars

\* The state of the bulk run as the page's signals give it; Paused is the
\* sub-state of Running in which the pause signal is up.
RunState(c) ==
  IF c.pc = "idle" THEN "Idle"
  ELSE IF c.isEnded THEN "Cancelled"
  ELSE IF ~c.isProcessing THEN "Completed"
  ELSE IF c.isPaused THEN "Paused"
  ELSE "Running"

RunTransitions ==
  {<<"Idle", "Running">>, <<"Running", "Paused">>, <<"Paused", "Running">>,
   <<"Running", "Completed">>, <<"Running", "Cancelled">>, <<"Paused", "Cancelled">>}

\* C24: the run state changes only along Idle -> Running, Running -> Paused,
\* Paused -> Running, Running -> Completed and Running -> Cancelled (a
\* cancel raised in the Paused sub-state included); pause and cancel are
\* raised only during a run; a run that has ended issues no further send;
\* a new run starts with both signals cleared.
C24_RunStateMachine ==
  [][/\ RunState(cl') # RunState(cl) => <<RunState(cl), RunState(cl')>> \in RunTransitions
     /\ ((cl'.isPaused /\ ~cl.isPaused) \/ (cl'.isEnded /\ ~cl.isEnded)) => cl.isProcessing
     /\ RunState(cl) \in {"Completed", "Cancelled"} => ~Dispatches
     /\ (RunState(cl) = "Idle" /\ RunState(cl') # "Idle") =>
          (~cl'.isPaused /\ ~cl'.isEnded)]_vars

\* C25: an entry of the token cache is never removed and changes only when
\* an exchange for its name is answered; a caller back from
\* getZohoAccessToken finds an entry for the account's name.
C25_EntriesStay ==
  [][/\ \A n \in Names :
          /\ tokenCache[n].present => tokenCache'[n].present
          /\ tokenCache'[n] # tokenCache[n] =>
               \E h \in H : StoresEntry(h) /\ Name(srv[h]) = n
     /\ \A h \in H :
          Returned(srv'[h]) => tokenCache'[Name(srv'[h])].present]_vars

\* The pre-flight call of a second request found the entry an earlier
\* request had written.
C25_Witness ==
  \E h \in H :
    /\ requests = 2
    /\ srv[h].pc = "tok_ret"
    /\ srv[h].ret = "preflight"
    /\ srv[h].xchg = 0
    /\ tokenCache[Name(srv[h])].present

\* Handler h comes back from a getZohoAccessToken call in this step.
Returns(h) == srv[h].pc # "tok_ret" /\ srv'[h].pc = "tok_ret"

\* C26 as stated: whenever getZohoAccessToken returns without error the
\* entry of the account's name is unexpired by the rule of the cache, so a
\* call made right then would make no exchange, whatever lifetime the
\* provider declared.
C26_UnexpiredOnReturn ==
  [][\A h \in H :
       Returns(h) => ~NeedsRefresh(tokenCache'[Name(srv'[h])], now')]_vars

\* C26 amended: on return the entry is unexpired by the rule of the cache,
\* except after an exchange whose declared lifetime less the 60 s margin
\* does not exceed the time the call took, which is always so for a
\* lifetime of 60 seconds or less.
C26_UnexpiredUnlessShortLived ==
  [][\A h \in H :
       Returns(h) =>
         LET s == srv'[h]
             fresh == ~NeedsRefresh(tokenCache'[Name(s)], now')
         IN IF s.xchg = 1 /\ ~s.expires_in.nan
            THEN fresh <=> (s.expires_in.v * 1000 - 60000 > now' - s.currentTime)
            ELSE fresh]_vars

\* Right after the pre-flight call stored a token with a lifetime of 60 s,
\* the call made by the mailbox lookup finds it expired and exchanges again.
C26_Witness ==
  \E h \in H :
    /\ srv[h].pc = "oauth_wait"
    /\ srv[h].ret = "sub"
    /\ srv[h].calls = 1
    /\ now = 0
    /\ srv[h].cachedToken.present
    /\ srv[h].cachedToken.access_token # Undefined
    /\ srv[h].cachedToken.expires_at = Num(0)

\* Handler h answers its request with an error in this step.
FailsNow(h) ==
  /\ srv[h].pc # "responded"
  /\ srv'[h].pc = "responded"
  /\ srv'[h].resp.code # OkCode

\* The only step that changes the store is one that answers 200.
OnlySuccessStores ==
  emailResults' # emailResults =>
    \E h \in H : /\ srv[h].pc # "responded"
                 /\ srv'[h].pc = "responded"
                 /\ srv'[h].resp.code = OkCode

\* C27: a bulk request answered with an error, or a store request without an
\* array, leaves the result store as it was, at the failing step and at every
\* step of the request before it, so that the batch returned as the last one
\* is still the one stored before.
C27_FailureLeavesStore ==
  [][/\ OnlySuccessStores
     /\ \A h \in H :
          FailsNow(h) => /\ emailResults' = emailResults
                         /\ GetEmailResults(emailResults') = GetEmailResults(emailResults)]_vars

\* A bulk request has failed after a batch had been stored, and that batch is
\* still the last one.
C27_Witness ==
  \E h \in H :
    /\ srv[h].route = "bulk"
    /\ srv[h].pc = "responded"
    /\ srv[h].resp.code # OkCode
    /\ Len(emailResults) = 1
    /\ GetEmailResults(emailResults) # <<>>

\* C28: when End Job is pressed while the run sits in its pause wait, the
\* next test of the wait's condition takes the run out of the wait and to
\* its end, with no further send and the results as they were.
C28_CancelLeavesPauseWait ==
  (cl.pc = "poll" /\ cl.isEnded) =>
    /\ Advance(cl).pc = "await_store"
    /\ Advance(cl).sent = cl.sent
    /\ Advance(cl).tempResults = cl.tempResults

\* C29: a started run whose pauses are always released or followed by End
\* Job, and whose requests are answered, eventually stops processing.
C29_RunTerminates ==
  ([]<>(~cl.isPaused \/ cl.isEnded)) => (cl.isProcessing ~> ~cl.isProcessing)

\* A result whose fields agree with its status.  "" stands for a null
\* messageId, 0 for a null responseCode, NullP for a null error.
Consistent(r) ==
  /\ r.status \in {"Success", "Failed"}
  /\ r.status = "Success" =>
       /\ r.responseCode = OkCode
       /\ r.error = NullP
       /\ r.fullResponse.kind = "body"
       /\ r.messageId = r.fullResponse.messageId
  /\ r.status = "Failed" =>
       /\ r.messageId = ""
       /\ r.error # NullP
       /\ r.responseCode # 0
       /\ r.responseCode = IF r.error.kind = "body" /\ r.error.status # 0
                           THEN r.error.status ELSE FallbackCode

\* C30: every result the bulk route has pushed, and every result of a
\* stored batch, is consistent: Success goes with code 200, no error and the
\* messageId of the provider's body; Failed goes with no messageId, an error
\* and a code, the upstream status or 500.
C30_ResultsConsistent ==
  /\ \A h \in H : \A i \in DOMAIN srv[h].results : Consistent(srv[h].results[i])
  /\ \A b \in DOMAIN emailResults :
       \A i \in DOMAIN emailResults[b] : Consistent(emailResults[b][i])

\* A stored batch holds a Failed result with the upstream status and a
\* Success result.
C30_Witness ==
  \E b \in DOMAIN emailResults :
    /\ \E i \in DOMAIN emailResults[b] :
         /\ emailResults[b][i].status = "Failed"
         /\ emailResults[b][i].responseCode = 429
    /\ \E i \in DOMAIN emailResults[b] :
         /\ emailResults[b][i].status = "Success"
         /\ emailResults[b][i].messageId = "m1"

====
